---- MODULE Spec2Model ----
(***************************************************************************)
(* Model of the signed-integer modular addition gadget                     *)
(*   gadgets/src/signed_integer/arithmetic/add.rs  (add_int_impl!::add)    *)
(*                                                                         *)
(* Integers are bit vectors: a sequence of 0/1 with index 1 holding bit 0. *)
(* An i128 is a vector of NativeBits bits in two's complement; a value of  *)
(* the gadget's IntegerType is a vector of SIZE bits.  Field coefficients  *)
(* that add.rs builds are all powers of two (F::one() doubled in place),   *)
(* so a coefficient is kept as its exponent and a linear combination as    *)
(* the sequence of its terms <<sign, exponent, variable>>.                 *)
(***************************************************************************)
EXTENDS Integers, Sequences, FiniteSets, TLC

VARIABLES SIZE, field_bits, overflow_checks, cs_evaluates,
          self, other,
          pc, max_value, result_value, lc, all_constants, coeff,
          modular_value, result_bits, i,
          cs_vars, cs_constraints, result, asg

vars == <<SIZE, field_bits, overflow_checks, cs_evaluates, self, other,
          pc, max_value, result_value, lc, all_constants, coeff,
          modular_value, result_bits, i, cs_vars, cs_constraints, result, asg>>

----------------------------------------------------------------------------
(* Bounds of the model *)

\* cap on the iterations of the result-bit loop that the model follows
MaxIter == 130

\* the constraint system may refuse an allocation at any index up to this one
MaxFailAt == 2

----------------------------------------------------------------------------
(* Program constants *)

\* width of the native accumulator (i128)
NativeBits == 128

\* assert!(F::Params::MODULUS_BITS >= 128)
MinModulusBits == 128

\* add_int_impl!(Int8 Int16 Int32 Int64 Int128)
Widths == {8, 16, 32, 64, 128}

\* MODULUS_BITS of the fields the gadget is instantiated with: one too small
\* for the assertion, and a 253-bit scalar field
FieldSizes == {127, 253}

None == <<>>

IsSome(x) == x # None

----------------------------------------------------------------------------
(* Bit vectors *)

\* bit k (k = 0 is the least significant) of a small natural number
Bit(n, k) == IF k > 30 THEN 0 ELSE (n \div (2 ^ k)) % 2

\* two's complement of a small integer in w bits
IntBits(n, w) ==
    IF n >= 0 THEN [k \in 1..w |-> Bit(n, k - 1)]
              ELSE [k \in 1..w |-> 1 - Bit(-n - 1, k - 1)]

\* IntegerType::max_value() and IntegerType::min_value()
IntegerType_max_value(w) == [k \in 1..w |-> IF k = w THEN 0 ELSE 1]
IntegerType_min_value(w) == [k \in 1..w |-> IF k = w THEN 1 ELSE 0]

Zeros(w) == [k \in 1..w |-> 0]

IsZero(x) == \A k \in 1..Len(x) : x[k] = 0

Sign(x) == x[Len(x)]

\* i128::from(v): sign extension
I128From(v) == [k \in 1..NativeBits |-> IF k <= Len(v) THEN v[k] ELSE Sign(v)]

RECURSIVE CarryOut(_, _, _, _, _)
\* the carry out of positions lo..hi of x + y, given the carry cin into lo
CarryOut(x, y, lo, hi, cin) ==
    IF lo > hi THEN cin
    ELSE IF lo = hi THEN (IF x[lo] + y[lo] + cin >= 2 THEN 1 ELSE 0)
    ELSE LET mid == (lo + hi) \div 2
         IN  IF CarryOut(x, y, lo, mid, cin) = 1
             THEN CarryOut(x, y, mid + 1, hi, 1)
             ELSE CarryOut(x, y, mid + 1, hi, 0)

\* x + y in Len(x) bits, wrapped
WrappingAdd(x, y) ==
    [k \in 1..Len(x) |-> (x[k] + y[k] + CarryOut(x, y, 1, k - 1, 0)) % 2]

\* signed overflow of x + y
AddOverflows(x, y) ==
    /\ Sign(x) = Sign(y)
    /\ Sign(WrappingAdd(x, y)) # Sign(x)

\* 2 * x in Len(x) bits, wrapped
WrappingDouble(x) == [k \in 1..Len(x) |-> IF k = 1 THEN 0 ELSE x[k - 1]]

\* signed overflow of 2 * x
DoubleOverflows(x) == x[Len(x)] # x[Len(x) - 1]

\* x >> 1 on a signed integer (the sign bit is shifted in)
ShiftRight1(x) == [k \in 1..Len(x) |-> IF k = Len(x) THEN Sign(x) ELSE x[k + 1]]

\* v as IntegerType: the low w bits
TruncatingCast(v, w) == SubSeq(v, 1, w)

----------------------------------------------------------------------------
(* Booleans, gadgets and linear combinations *)

\* CS::one()
ONE == <<"one", 0>>

NoVar == <<"none", 0>>

\* no witness assigned to a variable
Unassigned == -1

\* Boolean::Is(bit), Boolean::Not(bit), Boolean::Constant(bit)
Is(v) == [kind |-> "Is", var |-> v, val |-> 0]
Not(v) == [kind |-> "Not", var |-> v, val |-> 0]
Constant(b) == [kind |-> "Constant", var |-> NoVar, val |-> b]

\* Self::constant(value): SIZE constant bits and a known value
ConstantGadget(v) == [bits |-> [k \in 1..Len(v) |-> Constant(v[k])], value |-> v]

\* F::one()
FieldOne == 0

\* a weight that is never doubled
DoubleInPlace_stuck(c) == c

\* coeff.double_in_place()
DoubleInPlace(c) == c + 1

\* the terms of an operand bit when a true constant is left out
BitTerms_noConstant(bit, c) ==
    CASE bit.kind = "Is" -> << <<1, c, bit.var>> >>
      [] bit.kind = "Not" -> << <<1, c, ONE>>, <<-1, c, bit.var>> >>
      [] OTHER -> <<>>

\* the terms one operand bit adds to the linear combination
BitTerms(bit, c) ==
    CASE bit.kind = "Is" -> << <<1, c, bit.var>> >>
      [] bit.kind = "Not" -> << <<1, c, ONE>>, <<-1, c, bit.var>> >>
      [] OTHER -> IF bit.val = 1 THEN << <<1, c, ONE>> >> ELSE <<>>

\* one iteration of for bit in &bits { match *bit { ... } coeff.double_in_place(); }
AccumulateBit(st, bit) ==
    [lc |-> st.lc \o BitTerms(bit, st.coeff),
     all_constants |-> st.all_constants /\ bit.kind = "Constant",
     coeff |-> DoubleInPlace(st.coeff)]

RECURSIVE AccumulateBits(_, _, _, _)
\* the iterations for bits lo..hi in order, from the loop state st: the first
\* half of the range, then the second half from the state the first leaves
\* (the test on half only fixes the order of evaluation)
AccumulateBits(bits, lo, hi, st) ==
    IF lo > hi THEN st
    ELSE IF lo = hi THEN AccumulateBit(st, bits[lo])
    ELSE LET mid == (lo + hi) \div 2
             half == AccumulateBits(bits, lo, mid, st)
         IN  IF half.coeff >= FieldOne
             THEN AccumulateBits(bits, mid + 1, hi, half)
             ELSE st

\* the bit one position too high
WitnessBit_next(v, n) == v[((n + 1) % NativeBits) + 1]

\* (v >> i) & 1 == 1, with the shift amount masked when it is not checked
WitnessBit(v, n) == v[(n % NativeBits) + 1]

\* a truncation that keeps one bit too few
Truncate_short(bits, n) == IF Len(bits) > n - 1 THEN SubSeq(bits, 1, n - 1) ELSE bits

\* result_bits.truncate(SIZE)
Truncate(bits, n) == IF Len(bits) > n THEN SubSeq(bits, 1, n) ELSE bits

----------------------------------------------------------------------------
(* Operands *)

\* how the bits of an operand were made: all constants, all allocated, or
\* constants with an allocated low bit and negated bits 1 and SIZE-1
Patterns == {"constant", "allocated", "mixed"}

BooleanOf(name, pattern, k, w, b) ==
    CASE pattern = "constant" -> Constant(b)
      [] pattern = "allocated" -> Is(<<name, k>>)
      [] OTHER -> IF k = 1 THEN Is(<<name, k>>)
                  ELSE IF k = 2 \/ k = w THEN Not(<<name, k>>)
                  ELSE Constant(b)

\* an operand of width Len(v) whose bits encode v; its value is known or not
Gadget(name, pattern, v, known) ==
    [bits |-> [k \in 1..Len(v) |-> BooleanOf(name, pattern, k, Len(v), v[k])],
     value |-> IF known THEN v ELSE None]

\* pairs of operand values
OperandPairs(w) ==
    {<<IntBits(5, w), IntBits(3, w)>>,
     <<IntBits(5, w), IntBits(0, w)>>,
     <<IntegerType_max_value(w), IntBits(1, w)>>,
     <<IntegerType_min_value(w), IntBits(-1, w)>>}
    \cup (IF w = 8 THEN {<<IntBits(100, w), IntBits(27, w)>>,
                          <<IntBits(100, w), IntBits(100, w)>>,
                          <<IntBits(-1, w), IntBits(1, w)>>}
                   ELSE {})

\* the witness the prover holds for the variable under bit k of operand g
HonestVar(g, v, k) ==
    CASE g.bits[k].kind = "Is" -> v[k]
      [] g.bits[k].kind = "Not" -> 1 - v[k]
      [] OTHER -> 0

\* the variables of an operand as the builder holds them before the call
OperandVars(g, v) ==
    LET all == [k \in 1..Len(g.bits) |->
                  [var |-> g.bits[k].var,
                   witness |-> IF IsSome(g.value) THEN HonestVar(g, v, k)
                                                  ELSE Unassigned]]
    IN  SelectSeq(all, LAMBDA e : e.var # NoVar)

----------------------------------------------------------------------------
(* The state after construction: add is about to be called *)

NoAssignment == [a |-> <<>>, b |-> <<>>, r |-> <<>>]

Init ==
    /\ SIZE \in Widths
    /\ field_bits \in FieldSizes
    /\ overflow_checks \in BOOLEAN
    /\ cs_evaluates \in BOOLEAN
    /\ \E pair \in OperandPairs(SIZE), pa \in Patterns, pb \in Patterns,
          ka \in BOOLEAN, kb \in BOOLEAN :
          /\ pa = "constant" => ka
          /\ pb = "constant" => kb
          /\ pa = "mixed" => pb # "allocated"
          /\ self = Gadget("a", pa, pair[1], ka)
          /\ other = Gadget("b", pb, pair[2], kb)
          /\ cs_vars = OperandVars(self, pair[1]) \o OperandVars(other, pair[2])
    /\ pc = "start"
    /\ max_value = Zeros(NativeBits)
    /\ result_value = None
    /\ lc = <<>>
    /\ all_constants = TRUE
    /\ coeff = FieldOne
    /\ modular_value = None
    /\ result_bits = <<>>
    /\ i = 0
    /\ cs_constraints = <<>>
    /\ result = None
    /\ asg = NoAssignment

----------------------------------------------------------------------------
(* add, lines 25-51 *)

\* an arithmetic overflow that the build detects
Overflows ==
    \/ DoubleOverflows(I128From(IntegerType_max_value(SIZE)))
    \/ /\ IsSome(self.value) /\ IsSome(other.value)
       /\ AddOverflows(I128From(self.value), I128From(other.value))

\* assert!(F::Params::MODULUS_BITS >= 128) fails
AssertFails ==
    /\ pc = "start"
    /\ field_bits < MinModulusBits
    /\ pc' = "panic"
    /\ UNCHANGED <<SIZE, field_bits, overflow_checks, cs_evaluates, self, other,
                   max_value, result_value, lc, all_constants, coeff,
                   modular_value, result_bits, i, cs_vars, cs_constraints,
                   result, asg>>

\* the bound without the factor 2
MaxValue_undoubled(w) == I128From(IntegerType_max_value(w))

\* 2i128 * i128::from(IntegerType::max_value()), wrapped
MaxValue(w) == WrappingDouble(I128From(IntegerType_max_value(w)))

\* a sum that keeps the value of self when the value of other is unknown
AccumulateValue_keepSelf(sv, ov) ==
    IF IsSome(sv) /\ IsSome(ov) THEN WrappingAdd(I128From(sv), I128From(ov))
    ELSE IF IsSome(sv) THEN I128From(sv)
    ELSE None

\* result_value: the sum of the two values when both are known
AccumulateValue(sv, ov) ==
    IF IsSome(sv) /\ IsSome(ov) THEN WrappingAdd(I128From(sv), I128From(ov))
                                ELSE None

\* max_value and result_value are computed; an overflow panics when the
\* build checks it and wraps otherwise
Begin ==
    /\ pc = "start"
    /\ field_bits >= MinModulusBits
    /\ IF overflow_checks /\ Overflows
         THEN /\ pc' = "panic"
              /\ UNCHANGED <<max_value, result_value>>
         ELSE /\ max_value' = MaxValue(SIZE)
              /\ result_value' = AccumulateValue(self.value, other.value)
              /\ pc' = "self_bits"
    /\ UNCHANGED <<SIZE, field_bits, overflow_checks, cs_evaluates, self, other,
                   lc, all_constants, coeff, modular_value, result_bits, i,
                   cs_vars, cs_constraints, result, asg>>

(* add, lines 53-104 *)

AccumulateSelf ==
    /\ pc = "self_bits"
    /\ LET st == AccumulateBits(self.bits, 1, Len(self.bits),
                    [lc |-> lc, all_constants |-> all_constants, coeff |-> FieldOne])
       IN  /\ lc' = st.lc
           /\ all_constants' = st.all_constants
           /\ coeff' = st.coeff
    /\ pc' = "other_bits"
    /\ UNCHANGED <<SIZE, field_bits, overflow_checks, cs_evaluates, self, other,
                   max_value, result_value, modular_value, result_bits, i,
                   cs_vars, cs_constraints, result, asg>>

AccumulateOther ==
    /\ pc = "other_bits"
    /\ LET st == AccumulateBits(other.bits, 1, Len(other.bits),
                    [lc |-> lc, all_constants |-> all_constants, coeff |-> coeff])
       IN  /\ lc' = st.lc
           /\ all_constants' = st.all_constants
           /\ coeff' = st.coeff
    /\ pc' = "cast"
    /\ UNCHANGED <<SIZE, field_bits, overflow_checks, cs_evaluates, self, other,
                   max_value, result_value, modular_value, result_bits, i,
                   cs_vars, cs_constraints, result, asg>>

(* add, lines 106-114 *)

\* let modular_value = result_value.map(|v| v as IntegerType)
ModularValue(v, w) == IF IsSome(v) THEN TruncatingCast(v, w) ELSE None

\* all bits are constants and the value is known: return a constant
ReturnConstant ==
    /\ pc = "cast"
    /\ all_constants /\ IsSome(ModularValue(result_value, SIZE))
    /\ modular_value' = ModularValue(result_value, SIZE)
    /\ result' = ConstantGadget(modular_value')
    /\ pc' = "done"
    /\ UNCHANGED <<SIZE, field_bits, overflow_checks, cs_evaluates, self, other,
                   max_value, result_value, lc, all_constants, coeff,
                   result_bits, i, cs_vars, cs_constraints, asg>>

\* otherwise the result is unpacked into allocated bits
BeginAlloc ==
    /\ pc = "cast"
    /\ ~(all_constants /\ IsSome(ModularValue(result_value, SIZE)))
    /\ modular_value' = ModularValue(result_value, SIZE)
    /\ result_bits' = <<>>
    /\ coeff' = FieldOne
    /\ i' = 0
    /\ pc' = "alloc"
    /\ UNCHANGED <<SIZE, field_bits, overflow_checks, cs_evaluates, self, other,
                   max_value, result_value, lc, all_constants,
                   cs_vars, cs_constraints, result, asg>>

(* add, lines 119-137 *)

\* the variable of result bit n
ResultVar(n) == <<"r", n + 1>>

\* the witness closure fails: result_value.map(..).get() on None
WitnessMissing == cs_evaluates /\ ~IsSome(result_value)

\* one iteration of while max_value != 0 in which the allocation succeeds
AllocBit ==
    /\ pc = "alloc"
    /\ ~IsZero(max_value)
    /\ i < MaxIter
    /\ ~WitnessMissing
    /\ IF cs_evaluates /\ overflow_checks /\ i >= NativeBits
         THEN /\ pc' = "panic"
              /\ UNCHANGED <<max_value, lc, coeff, result_bits, i, cs_vars>>
         ELSE /\ cs_vars' = Append(cs_vars,
                    [var |-> ResultVar(i),
                     witness |-> IF cs_evaluates THEN WitnessBit(result_value, i)
                                                 ELSE Unassigned])
              /\ lc' = Append(lc, <<-1, coeff, ResultVar(i)>>)
              /\ result_bits' = Append(result_bits, Is(ResultVar(i)))
              /\ max_value' = ShiftRight1(max_value)
              /\ i' = i + 1
              /\ coeff' = DoubleInPlace(coeff)
              /\ pc' = "alloc"
    /\ UNCHANGED <<SIZE, field_bits, overflow_checks, cs_evaluates, self, other,
                   result_value, all_constants, modular_value,
                   cs_constraints, result, asg>>

\* a failure that leaves the variable of the failed bit in the builder
AllocFails_committed ==
    /\ pc = "alloc"
    /\ ~IsZero(max_value)
    /\ i < MaxIter
    /\ WitnessMissing \/ i <= MaxFailAt
    /\ cs_vars' = Append(cs_vars, [var |-> ResultVar(i), witness |-> Unassigned])
    /\ pc' = "error"
    /\ UNCHANGED <<SIZE, field_bits, overflow_checks, cs_evaluates, self, other,
                   max_value, result_value, lc, all_constants, coeff,
                   modular_value, result_bits, i, cs_constraints, result, asg>>

\* AllocatedBit::alloc(..)? returns an error: the witness is missing, or the
\* constraint system refuses the allocation
AllocFails ==
    /\ pc = "alloc"
    /\ ~IsZero(max_value)
    /\ i < MaxIter
    /\ WitnessMissing \/ i <= MaxFailAt
    /\ pc' = "error"
    /\ UNCHANGED <<SIZE, field_bits, overflow_checks, cs_evaluates, self, other,
                   max_value, result_value, lc, all_constants, coeff,
                   modular_value, result_bits, i, cs_vars, cs_constraints,
                   result, asg>>

(* add, lines 139-148 *)

Enforce ==
    /\ pc = "alloc"
    /\ IsZero(max_value)
    /\ cs_constraints' = Append(cs_constraints, lc)
    /\ result' = [bits |-> Truncate(result_bits, SIZE), value |-> modular_value]
    /\ pc' = "done"
    /\ UNCHANGED <<SIZE, field_bits, overflow_checks, cs_evaluates, self, other,
                   max_value, result_value, lc, all_constants, coeff,
                   modular_value, result_bits, i, cs_vars, asg>>

----------------------------------------------------------------------------
(* The registered constraint under an assignment of the variables *)

\* the value an assignment gives a variable
ValueOf(a, v) == IF v = ONE THEN 1 ELSE a[v[1]][v[2]]

\* the value of a bit under an assignment
BooleanValue(a, bit) ==
    CASE bit.kind = "Is" -> ValueOf(a, bit.var)
      [] bit.kind = "Not" -> 1 - ValueOf(a, bit.var)
      [] OTHER -> bit.val

\* the bits of a gadget under an assignment, bit k weighted 2^(k-1)
Decode(a, g) == [k \in 1..Len(g.bits) |-> BooleanValue(a, g.bits[k])]

\* n + 2^e on a bit vector long enough to hold the sum: the bits from e up
\* to the first clear one are cleared and that one is set
AddPow2(n, e) ==
    LET clear == {k \in (e + 1)..Len(n) : n[k] = 0}
        j == CHOOSE k \in clear : \A m \in clear : k <= m
    IN  [k \in 1..Len(n) |-> IF k <= e THEN n[k]
                              ELSE IF k < j THEN 0
                              ELSE IF k = j THEN 1
                              ELSE n[k]]

\* the term adds 2^exponent to the sum when it has sign sgn and its variable
\* is 1
AddTerm(acc, t, sgn, a) ==
    IF t[1] = sgn /\ ValueOf(a, t[3]) = 1 THEN AddPow2(acc, t[2]) ELSE acc

RECURSIVE SumTerms(_, _, _, _, _, _)
\* acc plus the sum of 2^exponent * value over the terms lo..hi of l that
\* have sign sgn (the test on half only fixes the order of evaluation)
SumTerms(l, lo, hi, sgn, a, acc) ==
    IF lo > hi THEN acc
    ELSE IF lo = hi THEN AddTerm(acc, l[lo], sgn, a)
    ELSE LET mid == (lo + hi) \div 2
             half == SumTerms(l, lo, mid, sgn, a, acc)
         IN  IF Len(half) = Len(acc)
             THEN SumTerms(l, mid + 1, hi, sgn, a, half)
             ELSE acc

\* lc = 0 in the field.  The sums stay below 2^(2 SIZE + 2); for SIZE <= 64
\* that is below the modulus of a 253-bit field, so the field equation is the
\* equation of the two sums.
LcIsZero(l, a) ==
    LET z == Zeros(2 * SIZE + 8)
    IN  SumTerms(l, 1, Len(l), 1, a, z) = SumTerms(l, 1, Len(l), -1, a, z)

\* the variables of an operand set from the bits of s
MaskVars(g, s) ==
    [k \in 1..Len(g.bits) |-> IF g.bits[k].kind = "Constant" THEN 0 ELSE s[k]]

\* the witness the builder holds for variable v
WitnessOf(v) ==
    LET k == CHOOSE n \in 1..Len(cs_vars) : cs_vars[n].var = v
    IN  cs_vars[k].witness

\* the witnesses of the variables of operand g, when they are assigned
Witnesses(g) ==
    IF IsSome(g.value)
    THEN {[k \in 1..Len(g.bits) |-> IF g.bits[k].kind = "Constant" THEN 0
                                     ELSE WitnessOf(g.bits[k].var)]}
    ELSE {}

\* assignments of the variables of operand g
OperandAssignments(g) ==
    {MaskVars(g, Zeros(Len(g.bits))),
     MaskVars(g, [k \in 1..Len(g.bits) |-> 1]),
     MaskVars(g, [k \in 1..Len(g.bits) |-> k % 2])}
    \cup Witnesses(g)

\* s made n long
Pad(s, n) == [k \in 1..n |-> IF k <= Len(s) THEN s[k] ELSE 0]

\* the witnesses of the result bits, when they are assigned
ResultWitnesses ==
    IF cs_evaluates
    THEN {[k \in 1..Len(result_bits) |-> WitnessOf(result_bits[k].var)]}
    ELSE {}

\* assignments of the result bits, given the values va and vb the operand
\* bits take
ResultAssignments(va, vb) ==
    LET n == Len(result_bits)
    IN  {Pad(va, n), Pad(WrappingAdd(va, vb), n), Zeros(n)} \cup ResultWitnesses

\* an assignment is chosen for the variables of the registered constraint
Satisfy ==
    /\ pc = "done"
    /\ Len(cs_constraints) = 1
    /\ \E sa \in OperandAssignments(self), sb \in OperandAssignments(other) :
         LET a0 == [a |-> sa, b |-> sb, r |-> <<>>]
         IN  \E sr \in ResultAssignments(Decode(a0, self), Decode(a0, other)) :
               asg' = [a |-> sa, b |-> sb, r |-> sr]
    /\ pc' = "checked"
    /\ UNCHANGED <<SIZE, field_bits, overflow_checks, cs_evaluates, self, other,
                   max_value, result_value, lc, all_constants, coeff,
                   modular_value, result_bits, i, cs_vars, cs_constraints,
                   result>>

Next ==
    \/ AssertFails
    \/ Begin
    \/ AccumulateSelf
    \/ AccumulateOther
    \/ ReturnConstant
    \/ BeginAlloc
    \/ AllocBit
    \/ AllocFails
    \/ Enforce
    \/ Satisfy

Spec == Init /\ [][Next]_vars

----------------------------------------------------------------------------
(* Notions the properties are stated with *)

Range(q) == {q[k] : k \in 1..Len(q)}

\* the positions of an operand that hold a variable
VarPositions(g) == {k \in 1..Len(g.bits) : g.bits[k].kind # "Constant"}

HasVariable(g) == VarPositions(g) # {}

\* the number of variables the builder held before the call
NumOperandVars == Cardinality(VarPositions(self)) + Cardinality(VarPositions(other))

\* the variables the call has added to the builder
NewVars == SubSeq(cs_vars, NumOperandVars + 1, Len(cs_vars))

\* add has returned a gadget
Returned == pc \in {"done", "checked"}

\* the call is over: it returned a gadget or an error, or it panicked
Finished == pc \in {"done", "checked", "error", "panic"}

\* x + y modulo 2^Len(x)
ModularSum(x, y) == WrappingAdd(x, y)

\* the number of bits of the natural number x: 0 for x = 0
BitLength(x) ==
    IF IsZero(x) THEN 0
    ELSE CHOOSE k \in 1..Len(x) : x[k] = 1 /\ \A m \in (k + 1)..Len(x) : x[m] = 0

\* x - 1 for a natural number x > 0
Decrement(x) ==
    LET j == CHOOSE k \in 1..Len(x) : x[k] = 1 /\ \A m \in 1..(k - 1) : x[m] = 0
    IN  [k \in 1..Len(x) |-> IF k < j THEN 1 ELSE IF k = j THEN 0 ELSE x[k]]

\* ceil(log2(x)) for a natural number x > 0
CeilLog2(x) == BitLength(Decrement(x))

\* 2 * max_magnitude(w) as a natural number of w + 1 bits
TwiceMaxMagnitude(w) == <<0>> \o IntegerType_max_value(w)

\* the terms the bits of operand g contribute when bit k has weight
\* 2^(base + k - 1)
OperandTerms(g, base) ==
    {<<1, base + k - 1, g.bits[k].var>> : k \in {n \in VarPositions(g) : g.bits[n].kind = "Is"}}
    \cup {<<-1, base + k - 1, g.bits[k].var>> : k \in {n \in VarPositions(g) : g.bits[n].kind = "Not"}}
    \cup {<<1, base + k - 1, ONE>> :
            k \in {n \in 1..Len(g.bits) : \/ g.bits[n].kind = "Not"
                                          \/ g.bits[n] = Constant(1)}}

\* the terms of the result bits allocated so far, bit n with weight 2^n
ResultTerms == {<<-1, n, ResultVar(n)>> : n \in 0..(Len(result_bits) - 1)}

\* the assignment the prover holds: every variable set to its witness
HonestAssignment ==
    [a |-> CHOOSE s \in Witnesses(self) : TRUE,
     b |-> CHOOSE s \in Witnesses(other) : TRUE,
     r |-> CHOOSE s \in ResultWitnesses : TRUE]

\* both operand values are known and the builder evaluates witnesses
Proving == cs_evaluates /\ IsSome(self.value) /\ IsSome(other.value)

----------------------------------------------------------------------------
(* Properties *)

\* the sum the result bits must encode under assignment a
SoundUnder(a) ==
    LcIsZero(cs_constraints[1], a)
        => Decode(a, result) = ModularSum(Decode(a, self), Decode(a, other))

\* every assignment of SIZE result bits, for SIZE = 8
AllResultAssignments == {[k \in 1..SIZE |-> Bit(n, k - 1)] : n \in 0..255}

ConstantPathReturns ==
    (/\ Finished
     /\ field_bits >= MinModulusBits
     /\ ~HasVariable(self) /\ ~HasVariable(other))
        => /\ pc = "done"
           /\ result = ConstantGadget(ModularSum(self.value, other.value))
           /\ Len(cs_vars) = NumOperandVars
           /\ cs_constraints = <<>>

\* C3: general path.  A call that succeeds on operands with an allocated or
\* negated bit has registered one constraint and allocated
\* ceil(log2(2 * max_magnitude(SIZE))) variables.
GeneralPathCounts ==
    (Returned /\ (HasVariable(self) \/ HasVariable(other)))
        => /\ Len(cs_constraints) = 1
           /\ Len(NewVars) = CeilLog2(TwiceMaxMagnitude(SIZE))

GeneralPathCountsWitness ==
    /\ pc = "done"
    /\ HasVariable(self)
    /\ Len(NewVars) = SIZE
    /\ SIZE = 64

\* C4: truncation law.  Every returned gadget has exactly SIZE bits, and on
\* the general path no fewer than SIZE bits were allocated.
TruncationLaw ==
    Returned
        => /\ Len(result.bits) = SIZE
           /\ (HasVariable(self) \/ HasVariable(other)) => Len(result_bits) >= SIZE

TruncationLawWitness ==
    /\ pc = "done"
    /\ HasVariable(other)
    /\ Len(result.bits) = SIZE
    /\ result.bits = result_bits

\* C5: result witness.  The returned value is known exactly when both operand
\* values are, and is then their sum modulo 2^SIZE in two's complement.
ResultValue ==
    Returned
        => /\ IsSome(result.value) <=> (IsSome(self.value) /\ IsSome(other.value))
           /\ IsSome(result.value) => result.value = ModularSum(self.value, other.value)

\* a returned sum of width 128 that lies outside the signed range
ResultValueWitness ==
    /\ pc = "done"
    /\ SIZE = NativeBits
    /\ IsSome(result.value)
    /\ Sign(self.value) = Sign(other.value)
    /\ Sign(result.value) # Sign(self.value)

\* C6: failure.  When the allocation of result bit i fails the builder holds
\* the variables it held before the call and those of result bits 0..i-1,
\* no constraint is registered and no gadget is returned.
FailureKeepsPartialState ==
    pc = "error"
        => /\ cs_constraints = <<>>
           /\ result = None
           /\ Len(cs_vars) = NumOperandVars + i
           /\ \A n \in 0..(i - 1) : cs_vars[NumOperandVars + n + 1].var = ResultVar(n)
           /\ \A k \in 1..NumOperandVars : cs_vars[k].var[1] \in {"a", "b"}

FailureKeepsPartialStateWitness ==
    /\ pc = "error"
    /\ i = 2
    /\ Len(NewVars) = 2

\* C7: bit weights.  Once both operands are accumulated, lc holds exactly one
\* group of terms per operand bit, bit k of self with weight 2^k and bit k of
\* other with weight 2^(SIZE + k), and one term per allocated result bit n,
\* subtracted with weight 2^n.
BitWeights ==
    pc \in {"cast", "alloc", "done", "checked", "error"}
        => LET expected == OperandTerms(self, 0) \cup OperandTerms(other, SIZE)
                               \cup (IF pc = "cast" THEN {} ELSE ResultTerms)
           IN  /\ Range(lc) = expected
               /\ Len(lc) = Cardinality(expected)

BitWeightsWitness ==
    /\ pc = "done"
    /\ \E k \in 1..SIZE : other.bits[k].kind = "Not"
    /\ \E k \in 1..SIZE : self.bits[k] = Constant(1)
    /\ <<-1, 2 * SIZE - 1, <<"b", SIZE>>>> \in Range(lc)
    /\ <<-1, SIZE - 1, ResultVar(SIZE - 1)>> \in Range(lc)

\* C8: termination.  The loop that halves max_value ends: it never runs
\* more iterations than max_value has bits.
AllocLoopEnds == i <= NativeBits

\* C9: result bits agree with the result witness.  With both operand values
\* known, the witness of result bit n is bit n of the modular witness for
\* every n below SIZE, so the returned bits decode to the returned value.
ResultBitsAgree ==
    (Proving /\ pc \in {"alloc", "done", "error"})
        => /\ \A n \in 0..(Len(result_bits) - 1) :
                 n < SIZE => WitnessOf(ResultVar(n)) = modular_value[n + 1]
           /\ pc = "done" => Decode(HonestAssignment, result) = result.value

\* a negative sum returned with its bits
ResultBitsAgreeWitness ==
    /\ Proving
    /\ pc = "done"
    /\ Len(cs_constraints) = 1
    /\ Sign(result.value) = 1
    /\ Decode(HonestAssignment, result) = result.value

\* C10: completeness.  With both operand values known, the assignment that
\* sets every variable to its witness satisfies the registered constraint.
HonestAssignmentSatisfies ==
    (pc = "checked" /\ Proving /\ asg = HonestAssignment)
        => LcIsZero(cs_constraints[1], asg)

====
